---- MODULE Spec2Model ----
(***************************************************************************)
(* Model of src/bot.py: the per-user expense ledger (class ExpenseTracker) *)
(* with its whole-document JSON persistence, and the chat handlers of the  *)
(* /add conversation and of /delete that drive it.                         *)
(*                                                                         *)
(* Representation of Python values:                                        *)
(*   str    a tuple of pieces: message texts are tuples of characters,     *)
(*          callback data and category labels are tuples of chunks;        *)
(*   float  [k |-> "fin", v |-> hundredths] | [k |-> "inf", v |-> +-1]     *)
(*          | [k |-> "nan", v |-> 0]; a sum is rounded to SigBits          *)
(*          significant bits (53 in the program);                          *)
(*   datetime  [y, mo, d, s] with s the time of day in clock ticks; its    *)
(*          ISO text is the tuple of these fields, with a fifth piece when *)
(*          the text carries a UTC offset;                                 *)
(*   dict   a TLA+ record (an expense) or a function (user_data);          *)
(*   file   [exists, text] with text the JSON text written so far.         *)
(***************************************************************************)
EXTENDS Integers, Sequences, FiniteSets, TLC

\* ------------------------------------------------------------- bounds
\* Longest ledger the model builds.
MaxLen == 2
\* Last reading of the wall clock.
MaxClock == 1

\* Writes that fail in one run.
MaxFaults == 1

\* Significant bits of a float.
SigBits == 10

\* Longest stored document a run starts from.
DocLen == 3
MaxTasks == 3

Users == {1, 2}

\* ------------------------------------------------------------- floats
Fin(v) == [k |-> "fin", v |-> v]
NaN == [k |-> "nan", v |-> 0]
Inf(neg) == [k |-> "inf", v |-> IF neg THEN -1 ELSE 1]

\* Python's  x <= 0  on a float: every comparison with nan is False.
FLeqZero(x) == x.k # "nan" /\ x.v <= 0
\* Python's  x > 0.
FGtZero(x) == x.k # "nan" /\ x.v > 0

\* x + y on floats: the exact sum rounded to the nearest float, ties to even.
RECURSIVE Pow2(_)
Pow2(n) == IF n = 0 THEN 1 ELSE 2 * Pow2(n - 1)

\* Spacing of the floats around the magnitude n.
RECURSIVE Ulp(_)
Ulp(n) == IF n < Pow2(SigBits) THEN 1 ELSE 2 * Ulp(n \div 2)

RoundSig(n) ==
  LET q == Ulp(n)
      lo == (n \div q) * q
      r == n - lo
  IN IF 2 * r < q THEN lo
     ELSE IF 2 * r > q THEN lo + q
     ELSE IF (n \div q) % 2 = 0 THEN lo ELSE lo + q

RoundFloat(v) == IF v < 0 THEN 0 - RoundSig(0 - v) ELSE RoundSig(v)

FAdd(x, y) ==
  IF x.k = "nan" \/ y.k = "nan" THEN NaN
  ELSE IF x.k = "inf" /\ y.k = "inf" THEN (IF x.v = y.v THEN x ELSE NaN)
  ELSE IF x.k = "inf" THEN x
  ELSE IF y.k = "inf" THEN y
  ELSE Fin(RoundFloat(x.v + y.v))

\* ------------------------------------------------------------- float(text)
Digits == {"0", "1", "2", "3", "4", "5", "6", "7", "8", "9"}

DigitVal(c) ==
  CASE c = "0" -> 0 [] c = "1" -> 1 [] c = "2" -> 2 [] c = "3" -> 3
    [] c = "4" -> 4 [] c = "5" -> 5 [] c = "6" -> 6 [] c = "7" -> 7
    [] c = "8" -> 8 [] c = "9" -> 9

Lower(c) ==
  CASE c = "N" -> "n" [] c = "A" -> "a" [] c = "I" -> "i" [] c = "F" -> "f"
    [] c = "T" -> "t" [] c = "Y" -> "y" [] OTHER -> c

RECURSIVE LStrip(_)
LStrip(s) == IF s # <<>> /\ Head(s) = " " THEN LStrip(Tail(s)) ELSE s

RECURSIVE RStrip(_)
RStrip(s) ==
  IF s # <<>> /\ s[Len(s)] = " " THEN RStrip(SubSeq(s, 1, Len(s) - 1)) ELSE s

Strip(s) == RStrip(LStrip(s))

\* Value of a run of decimal digits.
RECURSIVE DigitsVal(_)
DigitsVal(s) ==
  IF s = <<>> THEN 0
  ELSE 10 * DigitsVal(SubSeq(s, 1, Len(s) - 1)) + DigitVal(s[Len(s)])

\* digits [ "." [digits] ]  |  "." digits
IsDecimal(s) ==
  /\ \A i \in 1..Len(s) : s[i] \in Digits \cup {"."}
  /\ Cardinality({i \in 1..Len(s) : s[i] = "."}) <= 1
  /\ \E i \in 1..Len(s) : s[i] \in Digits

\* The number a decimal literal denotes, in hundredths (two fraction digits kept).
Hundredths(s) ==
  LET dots == {i \in 1..Len(s) : s[i] = "."}
      dot == IF dots = {} THEN Len(s) + 1 ELSE CHOOSE i \in dots : TRUE
      whole == SubSeq(s, 1, dot - 1)
      frac == SubSeq(s, dot + 1, Len(s)) \o <<"0", "0">>
  IN 100 * DigitsVal(whole) + DigitsVal(SubSeq(frac, 1, 2))

ValueError == [ok |-> FALSE, val |-> NaN]
Parsed(x) == [ok |-> TRUE, val |-> x]

\* Python's float(str) on the literals the model sends: surrounding blanks are
\* stripped, a sign is allowed, "nan", "inf" and "infinity" are accepted in any
\* case, anything else that is not a decimal literal raises ValueError.
ParseFloat(text) ==
  LET s == Strip(text)
      signed == s # <<>> /\ Head(s) \in {"+", "-"}
      neg == signed /\ Head(s) = "-"
      body == IF signed THEN Tail(s) ELSE s
      low == [i \in 1..Len(body) |-> Lower(body[i])]
  IN IF low = <<"n", "a", "n">> THEN Parsed(NaN)
     ELSE IF low \in {<<"i", "n", "f">>, <<"i", "n", "f", "i", "n", "i", "t", "y">>}
       THEN Parsed(Inf(neg))
     ELSE IF IsDecimal(body)
       THEN Parsed(Fin(IF neg THEN 0 - Hundredths(body) ELSE Hundredths(body)))
     ELSE ValueError

\* Python's int(str): blanks stripped, a sign allowed, then digits only.
ParseInt(text) ==
  LET s == Strip(text)
      signed == s # <<>> /\ Head(s) \in {"+", "-"}
      neg == signed /\ Head(s) = "-"
      body == IF signed THEN Tail(s) ELSE s
  IN IF body # <<>> /\ \A i \in 1..Len(body) : body[i] \in Digits
       THEN [ok |-> TRUE, val |-> IF neg THEN 0 - DigitsVal(body) ELSE DigitsVal(body)]
       ELSE [ok |-> FALSE, val |-> 0]

\* ------------------------------------------------------------- dates
\* Clock ticks in a day; clock reading 0 is the first instant of EpochYear.
TicksPerDay == MaxClock + 1
EpochYear == 2025

IsLeap(y) == y % 4 = 0 /\ (y % 100 # 0 \/ y % 400 = 0)

DaysInMonth(y, mo) ==
  IF mo = 2 THEN (IF IsLeap(y) THEN 29 ELSE 28)
  ELSE IF mo \in {4, 6, 9, 11} THEN 30 ELSE 31

DaysInYear(y) == IF IsLeap(y) THEN 366 ELSE 365

\* Days from the first day of EpochYear to the first day of year y.
RECURSIVE DaysToYear(_)
DaysToYear(y) ==
  IF y = EpochYear THEN 0
  ELSE IF y > EpochYear THEN DaysToYear(y - 1) + DaysInYear(y - 1)
  ELSE DaysToYear(y + 1) - DaysInYear(y)

\* Days from the first day of year y to the first day of its month mo.
RECURSIVE DaysToMonth(_, _)
DaysToMonth(y, mo) ==
  IF mo = 1 THEN 0 ELSE DaysToMonth(y, mo - 1) + DaysInMonth(y, mo - 1)

\* The clock reading of a datetime.
Linear(dt) ==
  (DaysToYear(dt.y) + DaysToMonth(dt.y, dt.mo) + dt.d - 1) * TicksPerDay + dt.s

RECURSIVE YearOf(_, _)
YearOf(y, days) ==
  IF days < 0 THEN YearOf(y - 1, days + DaysInYear(y - 1))
  ELSE IF days >= DaysInYear(y) THEN YearOf(y + 1, days - DaysInYear(y))
  ELSE [y |-> y, days |-> days]

RECURSIVE MonthOf(_, _, _)
MonthOf(y, mo, days) ==
  IF days >= DaysInMonth(y, mo) THEN MonthOf(y, mo + 1, days - DaysInMonth(y, mo))
  ELSE [mo |-> mo, d |-> days + 1]

\* datetime.now() at clock reading t.
Datetime(t) ==
  LET yd == YearOf(EpochYear, t \div TicksPerDay)
      md == MonthOf(yd.y, 1, yd.days)
  IN [y |-> yd.y, mo |-> md.mo, d |-> md.d, s |-> t % TicksPerDay]

\* dt - timedelta(days=n)
MinusDays(dt, n) == Datetime(Linear(dt) - n * TicksPerDay)

\* datetime.min
DatetimeMin == [y |-> 1, mo |-> 1, d |-> 1, s |-> 0]

\* a >= b on two naive datetimes.
DtGeq(a, b) ==
  \/ a.y > b.y
  \/ a.y = b.y /\ a.mo > b.mo
  \/ a.y = b.y /\ a.mo = b.mo /\ a.d > b.d
  \/ a.y = b.y /\ a.mo = b.mo /\ a.d = b.d /\ a.s >= b.s

\* dt.isoformat(): fixed-width fields, year first.
Iso(dt) == <<dt.y, dt.mo, dt.d, dt.s>>

\* datetime.now().isoformat() of clock reading t.
IsoFormat(t) == Iso(Datetime(t))

\* The piece a text ending in "Z" or "+00:00" carries after its four fields.
Utc == 0

\* datetime.fromisoformat(text.replace('Z', '+00:00')): ValueError unless the
\* text is four fields of a calendar date and time, with or without an offset.
FromIso(text) ==
  LET shaped == Len(text) \in {4, 5} /\ (Len(text) = 5 => text[5] = Utc)
      valid == /\ shaped
               /\ text[1] \in 1..9999
               /\ text[2] \in 1..12
               /\ text[3] \in 1..DaysInMonth(text[1], text[2])
               /\ text[4] \in 0..(TicksPerDay - 1)
  IN IF valid
       THEN [ok |-> TRUE, aware |-> Len(text) = 5,
             dt |-> [y |-> text[1], mo |-> text[2], d |-> text[3], s |-> text[4]]]
       ELSE [ok |-> FALSE, aware |-> FALSE, dt |-> DatetimeMin]

\* Python's  a < b  on two str: lexicographic.
RECURSIVE StrLess(_, _)
StrLess(a, b) ==
  IF b = <<>> THEN FALSE
  ELSE IF a = <<>> THEN TRUE
  ELSE IF Head(a) # Head(b) THEN Head(a) < Head(b)
  ELSE StrLess(Tail(a), Tail(b))

\* ------------------------------------------------------------- JSON document
\* json's literal of a float: repr for a finite one, NaN / Infinity / -Infinity.
JsonNumber(x) ==
  CASE x.k = "nan" -> [lit |-> "NaN", v |-> 0]
    [] x.k = "inf" /\ x.v > 0 -> [lit |-> "Infinity", v |-> 0]
    [] x.k = "inf" /\ x.v < 0 -> [lit |-> "-Infinity", v |-> 0]
    [] OTHER -> [lit |-> "num", v |-> x.v]

\* json's reading of a number literal.
JsonFloat(n) ==
  CASE n.lit = "NaN" -> NaN
    [] n.lit = "Infinity" -> Inf(FALSE)
    [] n.lit = "-Infinity" -> Inf(TRUE)
    [] OTHER -> Fin(n.v)

\* One expense dict as a JSON object, and back.
JsonObject(e) ==
  [id |-> e.id, date |-> e.date, amount |-> JsonNumber(e.amount),
   category |-> e.category, description |-> e.description]

JsonExpense(o) ==
  [id |-> o.id, date |-> o.date, amount |-> JsonFloat(o.amount),
   category |-> o.category, description |-> o.description]

\* The text of a file: whether "[" was written, the objects written, whether
\* "]" was written.
EmptyText == [open |-> FALSE, objs |-> <<>>, close |-> FALSE]

\* Mutant of JsonDump: the records are written last first.
JsonDumpReversed(expenses) ==
  [open |-> TRUE,
   objs |-> [i \in 1..Len(expenses) |-> JsonObject(expenses[Len(expenses) + 1 - i])],
   close |-> TRUE]

\* json.dump(expenses, f, indent=2): the complete text.
JsonDump(expenses) ==
  [open |-> TRUE,
   objs |-> [i \in 1..Len(expenses) |-> JsonObject(expenses[i])],
   close |-> TRUE]

\* Pieces of a text: "[", each object, "]".
TextLen(text) == Len(text.objs) + 2

\* The first k pieces of a text.
TextPrefix(text, k) ==
  IF k >= TextLen(text) THEN text
  ELSE [open |-> k >= 1,
        objs |-> SubSeq(text.objs, 1, IF k >= 1 THEN k - 1 ELSE 0),
        close |-> FALSE]

NoFile == [exists |-> FALSE, text |-> EmptyText]


\* ------------------------------------------------------------- ExpenseTracker
\* Mutant of Filename: one name for every user.
FilenameShared(user_id) == <<"expenses", ".json">>

\* os.path.join(data_dir, f"expenses_{user_id}.json")
Filename(user_id) == <<"expenses_", user_id, ".json">>

Filenames == {Filename(u) : u \in Users}

\* Outcomes of the write in save_expenses: it completes; open(filename, 'w')
\* raises and the file is left alone; or the file is opened (and so truncated)
\* and the write raises after k pieces of the text.
NoFault == [kind |-> "none", k |-> 0]
OpenFault == [kind |-> "open", k |-> 0]
WriteFault(k) == [kind |-> "write", k |-> k]

\* The failing writes of a ledger of n records: nothing written, or everything
\* but the closing bracket.
Faults(n) == {NoFault, OpenFault, WriteFault(0), WriteFault(n + 1)}

\* load_expenses: the parsed list, or [] when the file is missing or is not JSON.
load_expenses(file) ==
  IF file.exists /\ file.text.open /\ file.text.close
    THEN [i \in 1..Len(file.text.objs) |-> JsonExpense(file.text.objs[i])]
    ELSE <<>>

\* Mutant of save_expenses: the error of a failing write is swallowed.
save_expenses_swallows(file, expenses, fault) ==
  CASE fault.kind = "open" -> [file |-> file, exc |-> ""]
    [] fault.kind = "write" ->
         [file |-> [exists |-> TRUE, text |-> TextPrefix(JsonDump(expenses), fault.k)],
          exc |-> ""]
    [] OTHER -> [file |-> [exists |-> TRUE, text |-> JsonDump(expenses)], exc |-> ""]

\* save_expenses: with open(filename, 'w') as f: json.dump(expenses, f). No
\* exception is caught.
save_expenses(file, expenses, fault) ==
  CASE fault.kind = "open" -> [file |-> file, exc |-> "OSError"]
    [] fault.kind = "write" ->
         [file |-> [exists |-> TRUE, text |-> TextPrefix(JsonDump(expenses), fault.k)],
          exc |-> "OSError"]
    [] OTHER -> [file |-> [exists |-> TRUE, text |-> JsonDump(expenses)], exc |-> ""]

\* ExpenseTracker.__init__
ExpenseTracker(user_id, fs) ==
  [user_id |-> user_id,
   filename |-> Filename(user_id),
   expenses |-> load_expenses(fs[Filename(user_id)])]

\* Mutant of add_expense: the id is the length before the append.
add_expense_id_is_len(self, file, amount, category, description, clock, fault) ==
  LET expense == [id |-> Len(self.expenses),
                  date |-> IsoFormat(clock),
                  amount |-> amount,
                  category |-> category,
                  description |-> description]
      appended == Append(self.expenses, expense)
      sv == save_expenses(file, appended, fault)
  IN [self |-> [self EXCEPT !.expenses = appended],
      file |-> sv.file,
      saved |-> TRUE,
      exc |-> sv.exc,
      expense |-> expense,
      ret |-> IF sv.exc = "" THEN <<expense>> ELSE <<>>]

\* Mutant of add_expense: the record is put at the front of the list.
add_expense_prepends(self, file, amount, category, description, clock, fault) ==
  LET expense == [id |-> Len(self.expenses) + 1,
                  date |-> IsoFormat(clock),
                  amount |-> amount,
                  category |-> category,
                  description |-> description]
      appended == <<expense>> \o self.expenses
      sv == save_expenses(file, appended, fault)
  IN [self |-> [self EXCEPT !.expenses = appended],
      file |-> sv.file,
      saved |-> TRUE,
      exc |-> sv.exc,
      expense |-> expense,
      ret |-> IF sv.exc = "" THEN <<expense>> ELSE <<>>]

\* add_expense: the object, its file, the record built, what the call returns
\* or raises.
add_expense(self, file, amount, category, description, clock, fault) ==
  LET expense == [id |-> Len(self.expenses) + 1,
                  date |-> IsoFormat(clock),
                  amount |-> amount,
                  category |-> category,
                  description |-> description]
      appended == Append(self.expenses, expense)
      sv == save_expenses(file, appended, fault)
  IN [self |-> [self EXCEPT !.expenses = appended],
      file |-> sv.file,
      saved |-> TRUE,
      exc |-> sv.exc,
      expense |-> expense,
      ret |-> IF sv.exc = "" THEN <<expense>> ELSE <<>>]

\* Mutant of delete_expense: the list is saved whether or not a record matched.
delete_expense_saves_always(self, file, expense_id, fault) ==
  LET hits == {i \in 1..Len(self.expenses) : self.expenses[i].id = expense_id}
      i == IF hits = {} THEN 0 ELSE CHOOSE h \in hits : \A g \in hits : h <= g
      rest == IF i = 0 THEN self.expenses
              ELSE SubSeq(self.expenses, 1, i - 1)
                     \o SubSeq(self.expenses, i + 1, Len(self.expenses))
      sv == save_expenses(file, rest, fault)
  IN [self |-> [self EXCEPT !.expenses = rest],
      file |-> sv.file,
      saved |-> TRUE,
      exc |-> sv.exc,
      ret |-> i # 0 /\ sv.exc = ""]

\* delete_expense: the first record whose id matches is deleted and the list saved.
delete_expense(self, file, expense_id, fault) ==
  LET hits == {i \in 1..Len(self.expenses) : self.expenses[i].id = expense_id}
  IN IF hits = {}
       THEN [self |-> self, file |-> file, saved |-> FALSE, exc |-> "", ret |-> FALSE]
       ELSE LET i == CHOOSE h \in hits : \A g \in hits : h <= g
                rest == SubSeq(self.expenses, 1, i - 1)
                          \o SubSeq(self.expenses, i + 1, Len(self.expenses))
                sv == save_expenses(file, rest, fault)
            IN [self |-> [self EXCEPT !.expenses = rest],
                file |-> sv.file,
                saved |-> TRUE,
                exc |-> sv.exc,
                ret |-> sv.exc = ""]

\* sorted(..., key=date, reverse=True) is stable: records with equal dates keep
\* their order.
RECURSIVE InsertDesc(_, _)
InsertDesc(sorted, x) ==
  IF sorted = <<>> THEN <<x>>
  ELSE IF StrLess(Head(sorted).date, x.date) THEN <<x>> \o sorted
  ELSE <<Head(sorted)>> \o InsertDesc(Tail(sorted), x)

RECURSIVE SortDesc(_)
SortDesc(s) ==
  IF s = <<>> THEN <<>>
  ELSE InsertDesc(SortDesc(SubSeq(s, 1, Len(s) - 1)), s[Len(s)])

\* list[:limit]
Slice(list, limit) ==
  LET n == Len(list)
      stop == IF limit >= 0 THEN (IF limit < n THEN limit ELSE n)
              ELSE (IF n + limit > 0 THEN n + limit ELSE 0)
  IN SubSeq(list, 1, stop)

\* Mutant of get_recent_expenses: the ledger itself is sorted (list.sort).
get_recent_expenses_in_place(self, limit) ==
  [self |-> [self EXCEPT !.expenses = SortDesc(self.expenses)],
   ret |-> Slice(SortDesc(self.expenses), limit)]

\* get_recent_expenses: sorted(self.expenses, ...)[:limit], a new list; the
\* object, and what the call returns.
get_recent_expenses(self, limit) ==
  [self |-> self, ret |-> Slice(SortDesc(self.expenses), limit)]

\* What get_summary returns for an empty ledger.
ZeroSummary == [total |-> Fin(0), by_category |-> <<>>, count |-> 0]

\* start_date: the lower end of the window of a period.
StartDate(period, dtnow) ==
  CASE period = "day" -> [dtnow EXCEPT !.s = 0]
    [] period = "week" -> MinusDays(dtnow, 7)
    [] period = "month" -> [dtnow EXCEPT !.d = 1, !.s = 0]
    [] period = "year" -> [dtnow EXCEPT !.mo = 1, !.d = 1, !.s = 0]
    [] OTHER -> DatetimeMin

\* The try block of the loop: the record is kept when its date parses and is
\* not before start_date; fromisoformat raising ValueError, or the comparison
\* of a date that carries an offset with the naive start_date raising
\* TypeError, is caught and the record skipped.
Passes(expense, start_date) ==
  LET p == FromIso(expense.date)
  IN p.ok /\ ~p.aware /\ DtGeq(p.dt, start_date)

\* A left-to-right sum of floats, from 0.
RECURSIVE SumNaive(_)
SumNaive(amounts) ==
  IF amounts = <<>> THEN Fin(0)
  ELSE FAdd(SumNaive(SubSeq(amounts, 1, Len(amounts) - 1)), amounts[Len(amounts)])

RECURSIVE SumExact(_)
SumExact(amounts) ==
  IF amounts = <<>> THEN 0 ELSE amounts[1].v + SumExact(Tail(amounts))

\* The interpreters the program runs on: sum() adds left to right up to
\* Python 3.11 and compensates the rounding errors of finite floats from 3.12.
Builds == {"naive", "compensated"}

\* sum(amounts)
Sum(amounts, build) ==
  IF build = "compensated" /\ \A i \in 1..Len(amounts) : amounts[i].k = "fin"
    THEN Fin(RoundFloat(SumExact(amounts)))
    ELSE SumNaive(amounts)

\* by_category[category] = by_category.get(category, 0) + expense['amount']
RECURSIVE ByCategory(_)
ByCategory(filtered) ==
  IF filtered = <<>> THEN <<>>
  ELSE LET expense == filtered[Len(filtered)]
           by_category == ByCategory(SubSeq(filtered, 1, Len(filtered) - 1))
           sofar == IF expense.category \in DOMAIN by_category
                      THEN by_category[expense.category] ELSE Fin(0)
       IN (expense.category :> FAdd(sofar, expense.amount)) @@ by_category

\* get_summary: the object, and the summary the call returns.
get_summary(self, period, clock, build) ==
  IF self.expenses = <<>> THEN [self |-> self, ret |-> ZeroSummary]
  ELSE LET start_date == StartDate(period, Datetime(clock))
           filtered == SelectSeq(self.expenses, LAMBDA e : Passes(e, start_date))
       IN [self |-> self,
           ret |-> [total |-> Sum([i \in 1..Len(filtered) |-> filtered[i].amount], build),
                    by_category |-> ByCategory(filtered),
                    count |-> Len(filtered)]]


\* ------------------------------------------------------------- state
VARIABLES
  files,      \* filename -> the stored document
  store,      \* user -> the ExpenseTracker object a caller of the class holds
  now,        \* the wall clock datetime.now() reads
  hist,       \* user -> what has been called on store[user] since it was built
  faults,     \* writes and sends that have failed so far
  last,       \* the ExpenseTracker method called last (by the last update
              \* handled, in the chat), its inputs and its result
  conv,       \* user -> state of the /add conversation
  user_data,  \* user -> context.user_data
  reply,      \* user -> the last message the bot sent
  order,      \* user -> the order in which the user's records were added
  dialog,     \* the update the chat handled last, and for each user the
              \* records written since the /add conversation began
  tasks       \* the handler coroutines that run side by side, and what
              \* their sections have done

vars ==
  <<files, store, now, hist, faults, last, conv, user_data, reply, order, dialog, tasks>>

END == "END"
CATEGORY == "CATEGORY"
AMOUNT == "AMOUNT"
DESCRIPTION == "DESCRIPTION"
CONFIRM == "CONFIRM"

NoCall ==
  [op |-> "none", user |-> 0, amount |-> Fin(0), category |-> <<>>,
   description |-> <<>>, expense_id |-> 0, limit |-> 0, clock |-> 0,
   fault |-> "none", saved |-> FALSE, exc |-> "",
   ret_expense |-> <<>>, ret_bool |-> FALSE, ret_list |-> <<>>,
   period |-> "", build |-> "", ret_summary |-> ZeroSummary,
   before |-> <<>>, after |-> <<>>, file_before |-> NoFile]

Ids(expenses) == {expenses[i].id : i \in 1..Len(expenses)}

\* Position of the first record with this id (0 when there is none).
FirstWithId(expenses, id) ==
  LET hits == {i \in 1..Len(expenses) : expenses[i].id = id}
  IN IF hits = {} THEN 0 ELSE CHOOSE h \in hits : \A g \in hits : h <= g

Without(expenses, i) ==
  SubSeq(expenses, 1, i - 1) \o SubSeq(expenses, i + 1, Len(expenses))

\* What OrderSpec records: the order in which the records of a user were
\* added. log: the records, in that order, that the store or the document
\* still holds; mem_at, file_at: for each record of the store and of the
\* document, its place in the log; returned: the records add_expense has
\* returned, less those whose id a delete_expense that returned True was given.
AddOrder(expenses) ==
  [log |-> expenses,
   mem_at |-> [i \in 1..Len(expenses) |-> i],
   file_at |-> [i \in 1..Len(expenses) |-> i],
   returned |-> {}]

\* The records that are gone leave the log, and the places are renumbered.
Renumbered(o) ==
  LET used == {o.mem_at[i] : i \in 1..Len(o.mem_at)}
                \cup {o.file_at[i] : i \in 1..Len(o.file_at)}
      kept == SelectSeq([i \in 1..Len(o.log) |-> i], LAMBDA i : i \in used)
      rank(k) == Cardinality({j \in used : j <= k})
  IN [log |-> [j \in 1..Len(kept) |-> o.log[kept[j]]],
      mem_at |-> [i \in 1..Len(o.mem_at) |-> rank(o.mem_at[i])],
      file_at |-> [i \in 1..Len(o.file_at) |-> rank(o.file_at[i])],
      returned |-> o.returned]

\* The document after a call r: the list just saved, the document as it was
\* when nothing was written, or nothing when the write broke off.
FileAt(o, mem_at, r) ==
  IF ~r.saved THEN o.file_at
  ELSE IF r.exc = "" THEN mem_at
  ELSE IF load_expenses(r.file) = <<>> THEN <<>>
  ELSE o.file_at

\* self.expenses.append(expense), then the save
OrderAdd(o, r) ==
  LET log == Append(o.log, r.expense)
      mem_at == Append(o.mem_at, Len(log))
  IN Renumbered([log |-> log, mem_at |-> mem_at, file_at |-> FileAt(o, mem_at, r),
                 returned |-> IF r.exc = "" THEN o.returned \cup {r.expense}
                              ELSE o.returned])

\* del self.expenses[i], then the save (i = 0: no record matched)
OrderDelete(o, i, r) ==
  LET mem_at == IF i = 0 THEN o.mem_at ELSE Without(o.mem_at, i)
      returned == IF r.ret THEN {x \in o.returned : x.id # o.log[o.mem_at[i]].id}
                  ELSE o.returned
  IN Renumbered([log |-> o.log, mem_at |-> mem_at, file_at |-> FileAt(o, mem_at, r),
                 returned |-> returned])

\* self.expenses = self.load_expenses()
OrderNew(o) == Renumbered([o EXCEPT !.mem_at = o.file_at])

\* A store just built: its ledger came from the file, nothing was called on it.
Fresh(expenses) == [only_adds |-> expenses = <<>>, n_ok |-> 0, clean |-> TRUE]

\* No update has been handled.
NoTurn == [user |-> 0, handler |-> "", data |-> <<>>, written |-> [u \in Users |-> 0]]

\* No coroutine has begun. run: the coroutines in the order their updates
\* arrived, each with where it stands (pc), what its update carries, and the
\* document as it was when the coroutine began; serial: for each user, the
\* ledger that the load-modify-write sections run so far give when they are
\* applied one after another; confirmed: the records add_expense has returned,
\* less those whose id a delete_expense that returned True was given.
NoTasks ==
  [run |-> <<>>,
   serial |-> [u \in Users |-> <<>>],
   confirmed |-> [u \in Users |-> {}]]

\* A step of a specification that records neither orders, nor conversations,
\* nor coroutines.
Plain == UNCHANGED <<order, dialog, tasks>>

Init ==
  /\ files = [f \in Filenames |-> NoFile]
  /\ store = [u \in Users |-> ExpenseTracker(u, files)]
  /\ now = 0
  /\ hist = [u \in Users |-> Fresh(<<>>)]
  /\ faults = 0
  /\ last = NoCall
  /\ conv = [u \in Users |-> END]
  /\ user_data = [u \in Users |-> <<>>]
  /\ reply = [u \in Users |-> "none"]
  /\ order = [u \in Users |-> AddOrder(store[u].expenses)]
  /\ dialog = NoTurn
  /\ tasks = NoTasks

\* ------------------------------------------------------------- the clock
\* Time passes between two readings of datetime.now(); nothing makes it pass.
Tick ==
  /\ now < MaxClock
  /\ now' = now + 1
  /\ UNCHANGED <<files, store, hist, faults, last, conv, user_data, reply>>

\* A failing write is counted, and no more than MaxFaults happen.
Inject(fault) ==
  IF fault = NoFault THEN UNCHANGED faults
  ELSE faults < MaxFaults /\ faults' = faults + 1

\* ------------------------------------------------------------- calls of the class
\* tracker = ExpenseTracker(u)
New(u) ==
  /\ store' = [store EXCEPT ![u] = ExpenseTracker(u, files)]
  /\ hist' = [hist EXCEPT ![u] = Fresh(store'[u].expenses)]
  /\ last' = [NoCall EXCEPT !.op = "init", !.user = u,
                !.before = store[u].expenses, !.after = store'[u].expenses,
                !.file_before = files[Filename(u)]]
  /\ UNCHANGED <<files, now, faults, conv, user_data, reply>>

\* store[u].add_expense(amount, category, description)
Add(u, amount, category, description, fault) ==
  LET self == store[u]
      r == add_expense(self, files[self.filename], amount, category, description,
                       now, fault)
  IN /\ Len(self.expenses) < MaxLen
     /\ Inject(fault)
     /\ store' = [store EXCEPT ![u] = r.self]
     /\ files' = [files EXCEPT ![self.filename] = r.file]
     /\ hist' = [hist EXCEPT ![u] =
                   [only_adds |-> @.only_adds,
                    n_ok |-> IF @.only_adds /\ r.exc = "" THEN @.n_ok + 1 ELSE @.n_ok,
                    clean |-> @.clean /\ r.exc = ""]]
     /\ last' = [NoCall EXCEPT !.op = "add", !.user = u, !.amount = amount,
                   !.category = category, !.description = description,
                   !.clock = now, !.fault = fault.kind, !.saved = r.saved, !.exc = r.exc,
                   !.ret_expense = r.ret,
                   !.before = self.expenses, !.after = r.self.expenses,
                   !.file_before = files[self.filename]]
     /\ UNCHANGED <<now, conv, user_data, reply>>

\* store[u].delete_expense(expense_id)
Delete(u, expense_id, fault) ==
  LET self == store[u]
      r == delete_expense(self, files[self.filename], expense_id, fault)
  IN /\ r.saved \/ fault = NoFault
     /\ Inject(fault)
     /\ store' = [store EXCEPT ![u] = r.self]
     /\ files' = [files EXCEPT ![self.filename] = r.file]
     /\ hist' = [hist EXCEPT ![u] =
                   [only_adds |-> FALSE, n_ok |-> 0,
                    clean |-> @.clean /\ r.exc = ""]]
     /\ last' = [NoCall EXCEPT !.op = "delete", !.user = u,
                   !.expense_id = expense_id,
                   !.fault = IF r.saved THEN fault.kind ELSE "none",
                   !.saved = r.saved, !.exc = r.exc, !.ret_bool = r.ret,
                   !.before = self.expenses, !.after = r.self.expenses,
                   !.file_before = files[self.filename]]
     /\ UNCHANGED <<now, conv, user_data, reply>>

\* store[u].get_recent_expenses(limit)
Recent(u, limit) ==
  LET self == store[u]
      r == get_recent_expenses(self, limit)
  IN /\ store' = [store EXCEPT ![u] = r.self]
     /\ last' = [NoCall EXCEPT !.op = "recent", !.user = u, !.limit = limit,
                   !.ret_list = r.ret,
                   !.before = self.expenses, !.after = r.self.expenses,
                   !.file_before = files[self.filename]]
     /\ UNCHANGED <<files, now, hist, faults, conv, user_data, reply>>

\* store[u].get_summary(period)
Summary(u, period, build) ==
  LET self == store[u]
      r == get_summary(self, period, now, build)
  IN /\ store' = [store EXCEPT ![u] = r.self]
     /\ last' = [NoCall EXCEPT !.op = "summary", !.user = u, !.period = period,
                   !.clock = now, !.build = build, !.ret_summary = r.ret,
                   !.before = self.expenses, !.after = r.self.expenses,
                   !.file_before = files[self.filename]]
     /\ UNCHANGED <<files, now, hist, faults, conv, user_data, reply>>

\* ------------------------------------------------------------- Spec: a caller of the class
ApiUsers == {1}
ApiAmounts == {Fin(500), Fin(-500)}
ApiCategories == {<<"Food">>}
ApiDescriptions == {<<>>}
ApiLimits == {0, 1, 10}

Next ==
  \/ Tick /\ Plain
  \/ \E u \in ApiUsers : New(u) /\ Plain
  \/ \E u \in ApiUsers, a \in ApiAmounts, c \in ApiCategories, d \in ApiDescriptions :
       \E fault \in Faults(Len(store[u].expenses) + 1) : Add(u, a, c, d, fault) /\ Plain
  \/ \E u \in ApiUsers, id \in 1..(MaxLen + 1) :
       \E fault \in Faults(Len(store[u].expenses) - 1) : Delete(u, id, fault) /\ Plain
  \/ \E u \in ApiUsers, n \in ApiLimits : Recent(u, n) /\ Plain

Spec == Init /\ [][Next]_vars

\* ------------------------------------------------------------- OrderSpec: the order of the adds
\* The calls of Spec, each one recorded in order.
OrderAmounts == {Fin(500)}

NewInOrder(u) ==
  /\ New(u)
  /\ order' = [order EXCEPT ![u] = OrderNew(@)]
  /\ UNCHANGED <<dialog, tasks>>

AddInOrder(u, amount, category, description, fault) ==
  LET self == store[u]
      r == add_expense(self, files[self.filename], amount, category, description,
                       now, fault)
  IN /\ Add(u, amount, category, description, fault)
     /\ order' = [order EXCEPT ![u] = OrderAdd(@, r)]
     /\ UNCHANGED <<dialog, tasks>>

DeleteInOrder(u, expense_id, fault) ==
  LET self == store[u]
      r == delete_expense(self, files[self.filename], expense_id, fault)
  IN /\ Delete(u, expense_id, fault)
     /\ order' = [order EXCEPT ![u] =
                    OrderDelete(@, FirstWithId(self.expenses, expense_id), r)]
     /\ UNCHANGED <<dialog, tasks>>

OrderNext ==
  \/ Tick /\ Plain
  \/ \E u \in ApiUsers : NewInOrder(u)
  \/ \E u \in ApiUsers, a \in OrderAmounts, c \in ApiCategories, d \in ApiDescriptions :
       \E fault \in Faults(Len(store[u].expenses) + 1) : AddInOrder(u, a, c, d, fault)
  \/ \E u \in ApiUsers, id \in 1..(MaxLen + 1) :
       \E fault \in Faults(Len(store[u].expenses) - 1) : DeleteInOrder(u, id, fault)

OrderSpec == Init /\ [][OrderNext]_vars

\* ------------------------------------------------------------- MultiSpec: callers for two users
MultiAmounts == {Fin(500)}
MultiLimits == {10}
MultiPeriods == {"all"}
MultiBuilds == {"naive"}
MultiFaults == {NoFault, WriteFault(0)}

MultiNext ==
  \/ \E u \in Users : New(u) /\ Plain
  \/ \E u \in Users, a \in MultiAmounts, c \in ApiCategories, d \in ApiDescriptions :
       \E fault \in MultiFaults : Add(u, a, c, d, fault) /\ Plain
  \/ \E u \in Users, id \in 1..MaxLen :
       \E fault \in MultiFaults : Delete(u, id, fault) /\ Plain
  \/ \E u \in Users, n \in MultiLimits : Recent(u, n) /\ Plain
  \/ \E u \in Users, period \in MultiPeriods, build \in MultiBuilds :
       Summary(u, period, build) /\ Plain

MultiSpec == Init /\ [][MultiNext]_vars

\* ------------------------------------------------------------- stored documents
\* A record as json.load reads it from a document.
Record(id, date, amount, category) ==
  [id |-> id, date |-> date, amount |-> amount, category |-> category,
   description |-> <<>>]

\* The documents of at most maxlen records, numbered from 1, with these date
\* texts and these (amount, category) pairs.
Docs(dates, kinds, maxlen) ==
  UNION {{[i \in 1..n |-> Record(i, pick[i][1], pick[i][2].amount, pick[i][2].category)] :
            pick \in [1..n -> dates \X kinds]} : n \in 0..maxlen}

\* The program starts with a document of user 1 in place, at some time of day.
DocInit(docs, nows) ==
  /\ \E doc \in docs :
       files = [f \in Filenames |->
                  IF f = Filename(1) THEN [exists |-> TRUE, text |-> JsonDump(doc)]
                  ELSE NoFile]
  /\ store = [u \in Users |-> ExpenseTracker(u, files)]
  /\ now \in nows
  /\ hist = [u \in Users |-> Fresh(store[u].expenses)]
  /\ faults = 0
  /\ last = NoCall
  /\ conv = [u \in Users |-> END]
  /\ user_data = [u \in Users |-> <<>>]
  /\ reply = [u \in Users |-> "none"]
  /\ order = [u \in Users |-> AddOrder(<<>>)]
  /\ dialog = NoTurn
  /\ tasks = NoTasks

At(y, mo, d, s) == [y |-> y, mo |-> mo, d |-> d, s |-> s]

\* ------------------------------------------------------------- SumSpec: summaries of amounts
\* Amounts next to the largest one whose neighbours are all floats, in two
\* categories, dated today and last year.
SumNows == {Linear(At(2026, 3, 3, 1))}
SumDates == {Iso(At(2026, 3, 3, 0)), Iso(At(2025, 12, 31, 1))}
SumKinds ==
  {[amount |-> Fin(Pow2(SigBits)), category |-> <<"Food">>],
   [amount |-> Fin(1), category |-> <<"Food">>],
   [amount |-> Fin(1), category |-> <<"Transport">>]}
SumPeriods == {"all", "day"}

SumInit == DocInit(Docs(SumDates, SumKinds, DocLen), SumNows)

SumNext ==
  \E u \in ApiUsers, period \in SumPeriods, build \in Builds :
    Summary(u, period, build) /\ Plain

SumSpec == SumInit /\ [][SumNext]_vars

\* ------------------------------------------------------------- WindowSpec: summaries of dates
\* Dates on and around the starts of the windows, a date with month 13, and a
\* date with a UTC offset.
WindowNows == {Linear(At(2026, 3, 3, 1)), Linear(At(2026, 1, 1, 0))}
WindowDates ==
  {Iso(At(2025, 12, 31, 1)), Iso(At(2026, 2, 24, 0)), Iso(At(2026, 2, 24, 1)),
   Iso(At(2026, 3, 1, 0)), Iso(At(2026, 3, 3, 0)),
   <<2026, 13, 1, 0>>, <<2026, 3, 3, 1, Utc>>}
WindowKinds == {[amount |-> Fin(1), category |-> <<"Food">>]}
WindowPeriods == {"day", "week", "month", "year", "all", "decade"}

WindowInit == DocInit(Docs(WindowDates, WindowKinds, DocLen - 1), WindowNows)

WindowNext ==
  \/ \E u \in ApiUsers : New(u) /\ Plain
  \/ \E u \in ApiUsers, period \in WindowPeriods, build \in Builds :
       Summary(u, period, build) /\ Plain
  \/ \E u \in ApiUsers, n \in ApiLimits : Recent(u, n) /\ Plain
  \/ \E u \in ApiUsers, id \in 1..(DocLen - 1) : Delete(u, id, NoFault) /\ Plain

WindowSpec == WindowInit /\ [][WindowNext]_vars


\* ------------------------------------------------------------- chat handlers
\* context.user_data: a dict, here a function from its keys.
EmptyDict == <<>>

\* d[k] = v
Put(d, k, v) == (k :> v) @@ d

\* str.replace("cat_", "") on callback data, chunk by chunk.
RemoveCatPrefix(data) == SelectSeq(data, LAMBDA c : c # "cat_")

\* What is left in place when a handler raises: the conversation keeps its
\* state and the user gets no message (error_handler only logs).
Raised == "(exception)"

\* How the awaits of a handler end: all return, query.answer() raises, or the
\* reply_text / edit_message_text that follows raises (telegram.error).
Sent == "sent"
AnswerFails == "answer"
ReplyFails == "reply"
MessageSends == {Sent, ReplyFails}
CallbackSends == {Sent, AnswerFails, ReplyFails}

\* parse_mode='Markdown': the server refuses a text in which an entity is
\* opened and not closed (BadRequest, can't parse entities). Of the characters
\* that open one, the texts here hold only '_': the number of '_' in a chunk.
Underscores(chunk) ==
  IF chunk \in {"_", "cat_", "confirm_yes", "confirm_no"} THEN 1 ELSE 0

RECURSIVE CountUnderscores(_)
CountUnderscores(text) ==
  IF text = <<>> THEN 0
  ELSE Underscores(text[1]) + CountUnderscores(SubSeq(text, 2, Len(text)))

MarkdownParses(text) == CountUnderscores(text) % 2 = 0

\* How a send with parse_mode='Markdown' of a message that quotes this text
\* ends: as the transport has it, unless the server refuses the text.
Quoting(send, text) ==
  IF send = Sent /\ ~MarkdownParses(text) THEN ReplyFails ELSE send

\* A failing write or send is counted, and no more than MaxFaults happen. A
\* handler whose write fails never comes to its send.
InjectSend(fault, send) ==
  /\ fault = NoFault \/ send = Sent
  /\ IF fault = NoFault /\ send = Sent THEN UNCHANGED faults
     ELSE faults < MaxFaults /\ faults' = faults + 1

\* /add outside a conversation: the entry point of the ConversationHandler.
add_command(u, send) ==
  /\ conv[u] = END
  /\ InjectSend(NoFault, send)
  /\ IF send = Sent
       THEN /\ conv' = [conv EXCEPT ![u] = CATEGORY]
            /\ reply' = [reply EXCEPT ![u] = "Select Category"]
       ELSE /\ reply' = [reply EXCEPT ![u] = Raised]
            /\ UNCHANGED conv
  /\ last' = NoCall
  /\ UNCHANGED <<files, store, now, hist, user_data>>

\* A callback query in state CATEGORY.
category_chosen(u, data, send) ==
  /\ conv[u] = CATEGORY
  /\ InjectSend(NoFault, send)
  /\ IF send = AnswerFails
       THEN /\ reply' = [reply EXCEPT ![u] = Raised]
            /\ UNCHANGED <<conv, user_data>>
       ELSE IF data = <<"cancel">>
       THEN /\ UNCHANGED user_data
            /\ IF send = Sent
                 THEN /\ conv' = [conv EXCEPT ![u] = END]
                      /\ reply' = [reply EXCEPT ![u] = "Cancelled"]
                 ELSE /\ reply' = [reply EXCEPT ![u] = Raised]
                      /\ UNCHANGED conv
       ELSE /\ user_data' = [user_data EXCEPT
                               ![u] = Put(@, "category", RemoveCatPrefix(data))]
            /\ IF Quoting(send, RemoveCatPrefix(data)) = Sent
                 THEN /\ conv' = [conv EXCEPT ![u] = AMOUNT]
                      /\ reply' = [reply EXCEPT ![u] = "Enter amount"]
                 ELSE /\ reply' = [reply EXCEPT ![u] = Raised]
                      /\ UNCHANGED conv
  /\ last' = NoCall
  /\ UNCHANGED <<files, store, now, hist>>

\* A text message that is no command, in state AMOUNT.
amount_received(u, text, send) ==
  LET p == ParseFloat(text)
      said(message) == IF send = Sent THEN message ELSE Raised
  IN /\ conv[u] = AMOUNT
     /\ InjectSend(NoFault, send)
     /\ IF ~p.ok
          THEN /\ reply' = [reply EXCEPT ![u] = said("Please enter a valid number")]
               /\ UNCHANGED <<conv, user_data>>
          ELSE IF FLeqZero(p.val)
          THEN /\ reply' = [reply EXCEPT ![u] = said("Amount must be positive")]
               /\ UNCHANGED <<conv, user_data>>
          ELSE /\ user_data' = [user_data EXCEPT ![u] = Put(@, "amount", p.val)]
               /\ reply' = [reply EXCEPT ![u] = said("Enter description")]
               /\ IF send = Sent
                    THEN conv' = [conv EXCEPT ![u] = DESCRIPTION]
                    ELSE UNCHANGED conv
     /\ last' = NoCall
     /\ UNCHANGED <<files, store, now, hist>>

\* The end of description_received and skip_description: the description is
\* stored, then category and amount are read (KeyError when one is missing),
\* then the confirmation is sent.
AskConfirm(u, description, send) ==
  LET d == Put(user_data[u], "description", description)
  IN /\ user_data' = [user_data EXCEPT ![u] = d]
     /\ IF {"category", "amount"} \subseteq DOMAIN d
          THEN /\ InjectSend(NoFault, send)
               /\ last' = NoCall
               /\ IF Quoting(send, d["category"] \o description) = Sent
                    THEN /\ conv' = [conv EXCEPT ![u] = CONFIRM]
                         /\ reply' = [reply EXCEPT ![u] = "Confirm Transaction"]
                    ELSE /\ reply' = [reply EXCEPT ![u] = Raised]
                         /\ UNCHANGED conv
          ELSE /\ send = Sent
               /\ reply' = [reply EXCEPT ![u] = Raised]
               /\ last' = [NoCall EXCEPT !.exc = "KeyError"]
               /\ UNCHANGED <<conv, faults>>
     /\ UNCHANGED <<files, store, now, hist>>

\* A text message that is no command, in state DESCRIPTION.
description_received(u, text, send) ==
  /\ conv[u] = DESCRIPTION
  /\ AskConfirm(u, text, send)

\* /skip in state DESCRIPTION.
skip_description(u, send) ==
  /\ conv[u] = DESCRIPTION
  /\ AskConfirm(u, <<"No description">>, send)

\* A callback query in state CONFIRM.
confirm_expense(u, data, fault, send) ==
  LET tracker == ExpenseTracker(u, files)
      d == user_data[u]
      r == add_expense(tracker, files[tracker.filename], d["amount"], d["category"],
                       IF "description" \in DOMAIN d THEN d["description"] ELSE <<>>,
                       now, fault)
  IN /\ conv[u] = CONFIRM
     /\ IF send = AnswerFails
          THEN /\ InjectSend(fault, send)
               /\ reply' = [reply EXCEPT ![u] = Raised]
               /\ last' = NoCall
               /\ UNCHANGED <<files, conv, user_data>>
          ELSE IF data # <<"confirm_yes">>
          THEN /\ InjectSend(fault, send)
               /\ last' = NoCall
               /\ UNCHANGED files
               /\ IF send = Sent
                    THEN /\ reply' = [reply EXCEPT ![u] = "Transaction cancelled"]
                         /\ user_data' = [user_data EXCEPT ![u] = EmptyDict]
                         /\ conv' = [conv EXCEPT ![u] = END]
                    ELSE /\ reply' = [reply EXCEPT ![u] = Raised]
                         /\ UNCHANGED <<conv, user_data>>
          ELSE IF ~({"category", "amount"} \subseteq DOMAIN d)
          THEN /\ InjectSend(fault, send)
               /\ fault = NoFault /\ send = Sent
               /\ reply' = [reply EXCEPT ![u] = Raised]
               /\ last' = [NoCall EXCEPT !.exc = "KeyError"]
               /\ UNCHANGED <<files, conv, user_data>>
          ELSE /\ Len(tracker.expenses) < MaxLen
               /\ InjectSend(fault, send)
               /\ files' = [files EXCEPT ![tracker.filename] = r.file]
               /\ last' = [NoCall EXCEPT !.op = "add", !.user = u,
                             !.amount = d["amount"], !.category = d["category"],
                             !.description = r.self.expenses[Len(r.self.expenses)].description,
                             !.clock = now, !.fault = fault.kind, !.saved = r.saved,
                             !.exc = r.exc, !.ret_expense = r.ret,
                             !.before = tracker.expenses, !.after = r.self.expenses,
                             !.file_before = files[tracker.filename]]
               /\ IF r.exc = "" /\ Quoting(send, d["category"]) = Sent
                    THEN /\ reply' = [reply EXCEPT ![u] = "Transaction Saved"]
                         /\ user_data' = [user_data EXCEPT ![u] = EmptyDict]
                         /\ conv' = [conv EXCEPT ![u] = END]
                    ELSE /\ reply' = [reply EXCEPT ![u] = Raised]
                         /\ UNCHANGED <<conv, user_data>>
     /\ UNCHANGED <<store, now, hist>>

\* /cancel in any state of the conversation: the fallback. The message is
\* sent before user_data is cleared.
cancel(u, send) ==
  /\ conv[u] # END
  /\ InjectSend(NoFault, send)
  /\ IF send = Sent
       THEN /\ reply' = [reply EXCEPT ![u] = "Operation cancelled"]
            /\ user_data' = [user_data EXCEPT ![u] = EmptyDict]
            /\ conv' = [conv EXCEPT ![u] = END]
       ELSE /\ reply' = [reply EXCEPT ![u] = Raised]
            /\ UNCHANGED <<conv, user_data>>
  /\ last' = NoCall
  /\ UNCHANGED <<files, store, now, hist>>

\* /delete with its arguments; no state of the conversation handles it, so the
\* CommandHandler does, in any state.
delete_command(u, args, fault, send) ==
  LET id == ParseInt(args[1])
      tracker == ExpenseTracker(u, files)
      r == delete_expense(tracker, files[tracker.filename], id.val, fault)
      said(message) == IF send = Sent THEN message ELSE Raised
  IN /\ IF args = <<>>
          THEN /\ InjectSend(fault, send)
               /\ fault = NoFault
               /\ reply' = [reply EXCEPT ![u] = said("Usage")]
               /\ last' = NoCall
               /\ UNCHANGED files
          ELSE IF ~id.ok
          THEN /\ InjectSend(fault, send)
               /\ fault = NoFault
               /\ reply' = [reply EXCEPT ![u] = said("Please enter a valid ID number")]
               /\ last' = NoCall
               /\ UNCHANGED files
          ELSE /\ r.saved \/ fault = NoFault
               /\ InjectSend(fault, send)
               /\ files' = [files EXCEPT ![tracker.filename] = r.file]
               /\ last' = [NoCall EXCEPT !.op = "delete", !.user = u,
                             !.expense_id = id.val,
                             !.fault = IF r.saved THEN fault.kind ELSE "none",
                             !.saved = r.saved, !.exc = r.exc, !.ret_bool = r.ret,
                             !.before = tracker.expenses, !.after = r.self.expenses,
                             !.file_before = files[tracker.filename]]
               /\ reply' = [reply EXCEPT ![u] =
                              IF r.exc # "" THEN Raised
                              ELSE IF r.ret THEN said("Deleted transaction")
                              ELSE said("Transaction not found")]
     /\ UNCHANGED <<store, now, hist, conv, user_data>>

\* ------------------------------------------------------------- ChatSpec: a user of the bot
\* The handlers read the clock only to stamp a record: ChatSpec holds it still.
\* Every message the bot sends arrives.
ChatUsers == {1}
ChatSends == {Sent}
ChatCategoryData == {<<"cat_", "Food">>, <<"cancel">>}
ChatConfirmData == {<<"confirm_yes">>, <<"confirm_no">>}
ChatAmountTexts == {<<"5">>, <<"0">>, <<"-", "5">>, <<"a", "b", "c">>, <<"n", "a", "n">>}
ChatDescriptionTexts == {<<"t", "e", "a">>}
ChatDeleteArgs == {<<>>, << <<"1">> >>, << <<"2">> >>, << <<"x">> >>}

ChatNext ==
  \/ \E u \in ChatUsers, send \in ChatSends : add_command(u, send) /\ Plain
  \/ \E u \in ChatUsers, data \in ChatCategoryData, send \in ChatSends :
       category_chosen(u, data, send) /\ Plain
  \/ \E u \in ChatUsers, text \in ChatAmountTexts, send \in ChatSends :
       amount_received(u, text, send) /\ Plain
  \/ \E u \in ChatUsers, text \in ChatDescriptionTexts, send \in ChatSends :
       description_received(u, text, send) /\ Plain
  \/ \E u \in ChatUsers, send \in ChatSends : skip_description(u, send) /\ Plain
  \/ \E u \in ChatUsers, data \in ChatConfirmData, send \in ChatSends :
       \E fault \in Faults(Len(load_expenses(files[Filename(u)])) + 1) :
         confirm_expense(u, data, fault, send) /\ Plain
  \/ \E u \in ChatUsers, send \in ChatSends : cancel(u, send) /\ Plain
  \/ \E u \in ChatUsers, args \in ChatDeleteArgs, send \in ChatSends :
       \E fault \in Faults(Len(load_expenses(files[Filename(u)])) - 1) :
         delete_command(u, args, fault, send) /\ Plain

ChatSpec == Init /\ [][ChatNext]_vars

\* ------------------------------------------------------------- ConvSpec: the /add conversation
\* The updates of ChatSpec, some of whose answers fail to arrive, each one
\* recorded with the handler that took it.
ConvUsers == {1}
ConvCategoryData == {<<"cat_", "Food">>, <<"cancel">>}
ConvConfirmData == {<<"confirm_yes">>, <<"confirm_no">>}
ConvAmountTexts == {<<"5">>, <<"0">>}
ConvDescriptionTexts == {<<"t", "e", "a">>}
ConvDeleteArgs == {<< <<"1">> >>}

\* The update is recorded; a conversation that begins has written nothing, and
\* an add_expense that returns has written one record more.
Turn(u, handler, data) ==
  dialog' = [user |-> u, handler |-> handler, data |-> data,
             written |-> [dialog.written EXCEPT ![u] =
                            IF handler = "add_expense" /\ conv'[u] = CATEGORY THEN 0
                            ELSE IF last'.op = "add" /\ last'.exc = "" THEN @ + 1
                            ELSE @]]

Recorded(u, handler, data) == Turn(u, handler, data) /\ UNCHANGED <<order, tasks>>

ConvNext ==
  \/ \E u \in ConvUsers, send \in MessageSends :
       add_command(u, send) /\ Recorded(u, "add_expense", <<>>)
  \/ \E u \in ConvUsers, data \in ConvCategoryData, send \in CallbackSends :
       category_chosen(u, data, send) /\ Recorded(u, "category_chosen", data)
  \/ \E u \in ConvUsers, text \in ConvAmountTexts, send \in MessageSends :
       amount_received(u, text, send) /\ Recorded(u, "amount_received", <<>>)
  \/ \E u \in ConvUsers, text \in ConvDescriptionTexts, send \in MessageSends :
       description_received(u, text, send) /\ Recorded(u, "description_received", <<>>)
  \/ \E u \in ConvUsers, send \in MessageSends :
       skip_description(u, send) /\ Recorded(u, "skip_description", <<>>)
  \/ \E u \in ConvUsers, data \in ConvConfirmData, send \in CallbackSends :
       \E fault \in Faults(Len(load_expenses(files[Filename(u)])) + 1) :
         confirm_expense(u, data, fault, send) /\ Recorded(u, "confirm_expense", data)
  \/ \E u \in ConvUsers, send \in MessageSends :
       cancel(u, send) /\ Recorded(u, "cancel", <<>>)
  \/ \E u \in ConvUsers, args \in ConvDeleteArgs, send \in MessageSends :
       \E fault \in Faults(Len(load_expenses(files[Filename(u)])) - 1) :
         delete_command(u, args, fault, send) /\ Recorded(u, "delete_expense", <<>>)

ConvSpec == Init /\ [][ConvNext]_vars

\* ------------------------------------------------------------- ButtonSpec: callbacks in CATEGORY
\* The labels of the preset list (two of them).
CATEGORIES == {<<"Food">>, <<"Transport">>}

\* The callback data a client can send while the conversation waits for a
\* category: that of the buttons of the category keyboard, that of the
\* buttons of an earlier confirmation, and data no button of the bot carries
\* (the client, not the server, puts the data into the query).
ButtonUsers == {1}
ButtonCategoryData ==
  {<<"cat_">> \o label : label \in CATEGORIES}
    \cup {<<"cancel">>, <<"confirm_yes">>, <<"confirm_no">>, <<"Pets">>}
ButtonAmountTexts == {<<"5">>}
ButtonDescriptionTexts == {<<"t", "e", "a">>}

\* Every write succeeds and every message the server accepts arrives.
ButtonNext ==
  \/ \E u \in ButtonUsers : add_command(u, Sent) /\ Plain
  \/ \E u \in ButtonUsers, data \in ButtonCategoryData :
       category_chosen(u, data, Sent) /\ Plain
  \/ \E u \in ButtonUsers, text \in ButtonAmountTexts :
       amount_received(u, text, Sent) /\ Plain
  \/ \E u \in ButtonUsers, text \in ButtonDescriptionTexts :
       description_received(u, text, Sent) /\ Plain
  \/ \E u \in ButtonUsers : skip_description(u, Sent) /\ Plain
  \/ \E u \in ButtonUsers, data \in ConvConfirmData :
       confirm_expense(u, data, NoFault, Sent) /\ Plain
  \/ \E u \in ButtonUsers : cancel(u, Sent) /\ Plain

ButtonSpec == Init /\ [][ButtonNext]_vars

\* ------------------------------------------------------------- AsyncSpec: handlers side by side
\* Coroutines of confirm_expense and of the /delete handler for one user, which
\* the event loop resumes in any order; a coroutine gives way only at an await.
\* Every write and every send succeeds, and the clock stands still; of a call
\* only its name and its result are kept in last.
AsyncUsers == {1}
AsyncAmounts == {Fin(500)}
AsyncCategories == {<<"Food">>}
AsyncIds == {1, 2}

\* Mutant of SectionTracker: the ledger was loaded when the coroutine began,
\* before its first await.
SectionTrackerStale(task, fs) ==
  [user_id |-> task.user,
   filename |-> Filename(task.user),
   expenses |-> load_expenses(task.seen)]

\* tracker = ExpenseTracker(id), inside the section: no await lies between this
\* line and the call of add_expense or delete_expense.
SectionTracker(task, fs) == ExpenseTracker(task.user, fs)

\* The object that holds this ledger.
Holding(u, ledger) == [user_id |-> u, filename |-> Filename(u), expenses |-> ledger]

\* The update arrives and its coroutine is created.
Spawn(handler, u, amount, expense_id) ==
  /\ Len(tasks.run) < MaxTasks
  /\ tasks' = [tasks EXCEPT !.run = Append(@,
                 [handler |-> handler, user |-> u,
                  pc |-> IF handler = "confirm_expense" THEN "answer" ELSE "section",
                  amount |-> amount, expense_id |-> expense_id,
                  seen |-> files[Filename(u)]])]
  /\ UNCHANGED <<files, store, now, hist, faults, last, conv, user_data, reply,
                 order, dialog>>

\* await query.answer() returns.
Answered(i) ==
  /\ tasks.run[i].pc = "answer"
  /\ tasks' = [tasks EXCEPT !.run[i].pc = "section"]
  /\ UNCHANGED <<files, store, now, hist, faults, last, conv, user_data, reply,
                 order, dialog>>

\* confirm_expense from the end of await query.answer() to the next await:
\* the fields are read from user_data (KeyError when another coroutine has
\* cleared it: held is false), the ledger is loaded, the record appended and
\* the list saved.
ConfirmSection(i, held) ==
  LET task == tasks.run[i]
      u == task.user
      tracker == SectionTracker(task, files)
      r == add_expense(tracker, files[tracker.filename], task.amount,
                       CHOOSE c \in AsyncCategories : TRUE, <<>>, now, NoFault)
      one == add_expense(Holding(u, tasks.serial[u]), files[tracker.filename],
                         task.amount, CHOOSE c \in AsyncCategories : TRUE, <<>>, now,
                         NoFault)
  IN /\ task.handler = "confirm_expense"
     /\ task.pc = "section"
     /\ IF held
          THEN /\ Len(tracker.expenses) < MaxLen
               /\ Len(tasks.serial[u]) < MaxLen
               /\ files' = [files EXCEPT ![tracker.filename] = r.file]
               /\ last' = [NoCall EXCEPT !.op = "add", !.user = u, !.exc = r.exc]
               /\ tasks' = [tasks EXCEPT !.run[i].pc = "reply",
                                         !.serial[u] = one.self.expenses,
                                         !.confirmed[u] = @ \cup {r.expense}]
          ELSE /\ last' = [NoCall EXCEPT !.exc = "KeyError"]
               /\ tasks' = [tasks EXCEPT !.run[i].pc = "done"]
               /\ UNCHANGED files
     /\ UNCHANGED <<store, now, hist, faults, conv, user_data, reply, order, dialog>>

\* The /delete handler from its start to its await: the ledger is loaded, the
\* record deleted and the list saved.
DeleteSection(i) ==
  LET task == tasks.run[i]
      u == task.user
      tracker == SectionTracker(task, files)
      r == delete_expense(tracker, files[tracker.filename], task.expense_id, NoFault)
      one == delete_expense(Holding(u, tasks.serial[u]), files[tracker.filename],
                            task.expense_id, NoFault)
  IN /\ task.handler = "delete_expense"
     /\ task.pc = "section"
     /\ files' = [files EXCEPT ![tracker.filename] = r.file]
     /\ last' = [NoCall EXCEPT !.op = "delete", !.user = u, !.exc = r.exc,
                   !.ret_bool = r.ret]
     /\ tasks' = [tasks EXCEPT !.run[i].pc = "reply",
                               !.serial[u] = one.self.expenses,
                               !.confirmed[u] =
                                 IF r.ret THEN {x \in @ : x.id # task.expense_id} ELSE @]
     /\ UNCHANGED <<store, now, hist, faults, conv, user_data, reply, order, dialog>>

\* await query.edit_message_text / reply_text returns, and the handler with it.
Replied(i) ==
  /\ tasks.run[i].pc = "reply"
  /\ tasks' = [tasks EXCEPT !.run[i].pc = "done"]
  /\ UNCHANGED <<files, store, now, hist, faults, last, conv, user_data, reply,
                 order, dialog>>

AsyncNext ==
  \/ \E u \in AsyncUsers, a \in AsyncAmounts : Spawn("confirm_expense", u, a, 0)
  \/ \E u \in AsyncUsers, id \in AsyncIds : Spawn("delete_expense", u, Fin(0), id)
  \/ \E i \in 1..Len(tasks.run) : Answered(i)
  \/ \E i \in 1..Len(tasks.run), held \in BOOLEAN : ConfirmSection(i, held)
  \/ \E i \in 1..Len(tasks.run) : DeleteSection(i)
  \/ \E i \in 1..Len(tasks.run) : Replied(i)

AsyncSpec == Init /\ [][AsyncNext]_vars

\* ------------------------------------------------------------- helpers of the claims
Complete(file) == file.exists /\ file.text.open /\ file.text.close

LastFile == files[Filename(last.user)]

\* ------------------------------------------------------------- claims under Spec

\* C1: in every ledger reached from an empty one by add_expense and
\* delete_expense calls, every id is a positive integer and no two records
\* share an id.
C1_IdsPositiveAndUnique ==
  \A u \in Users :
    LET e == store[u].expenses
    IN \A i \in 1..Len(e) :
         /\ e[i].id > 0
         /\ \A j \in 1..Len(e) : i # j => e[i].id # e[j].id

\* C2: a write is atomic: when save_expenses fails during an add or a delete the
\* prior document is intact, so a store built afterwards loads the ledger that
\* was stored before the call, never a half-written or emptied one.
C2_WriteIsAtomic ==
  (last.op \in {"add", "delete"} /\ last.exc # "") =>
    load_expenses(LastFile) = load_expenses(last.file_before)

\* C3: add_expense with amount <= 0 is rejected with a validation error before
\* any write, and the ledger and the stored document are unchanged.
C3_NonPositiveAmountRejected ==
  (last.op = "add" /\ FLeqZero(last.amount)) =>
    /\ last.exc = "ValidationError"
    /\ ~last.saved
    /\ last.after = last.before
    /\ LastFile = last.file_before

\* C4: delete_expense(id) on a ledger holding that id removes exactly the first
\* record with the id, keeps the others in order and unchanged, returns True
\* and persists the result; a second delete_expense(id) right after returns
\* False and changes nothing.
C4_DeleteRemovesFirstThenNotFound ==
  (last.op = "delete" /\ last.exc = "" /\ last.expense_id \in Ids(last.before)) =>
    LET u == last.user
        again == delete_expense(store[u], LastFile, last.expense_id, NoFault)
    IN /\ last.ret_bool
       /\ last.after = Without(last.before, FirstWithId(last.before, last.expense_id))
       /\ store[u].expenses = last.after
       /\ Complete(LastFile) /\ load_expenses(LastFile) = last.after
       /\ again.ret = FALSE
       /\ again.self = store[u]
       /\ again.file = LastFile

\* C5: delete_expense(id) with an id no record carries returns False without
\* raising, leaves the in-memory ledger as it was and writes nothing.
C5_DeleteAbsentIsNoOp ==
  (last.op = "delete" /\ last.expense_id \notin Ids(last.before)) =>
    /\ last.ret_bool = FALSE
    /\ last.exc = ""
    /\ ~last.saved
    /\ last.after = last.before
    /\ store[last.user].expenses = last.before
    /\ LastFile = last.file_before

C5_Witness ==
  /\ last.op = "delete"
  /\ last.before # <<>>
  /\ last.expense_id \notin Ids(last.before)

\* C6: add_expense appends exactly one record, at the end, with id = length
\* before + 1 and the given amount, category and description, leaves the
\* earlier records as they were, and when it returns it returns that record
\* with the whole resulting ledger written to the stored document.
C6_AddAppendsOne ==
  last.op = "add" =>
    LET n == Len(last.before)
    IN /\ Len(last.after) = n + 1
       /\ SubSeq(last.after, 1, n) = last.before
       /\ last.after[n + 1] = [id |-> n + 1, date |-> IsoFormat(last.clock),
                               amount |-> last.amount, category |-> last.category,
                               description |-> last.description]
       /\ store[last.user].expenses = last.after
       /\ last.exc = "" =>
            /\ last.ret_expense = <<last.after[n + 1]>>
            /\ Complete(LastFile)
            /\ load_expenses(LastFile) = last.after

C6_Witness ==
  /\ last.op = "add"
  /\ last.exc = ""
  /\ Len(last.before) = 1
  /\ Len(load_expenses(LastFile)) = 2

\* C7: while every add_expense and delete_expense call on a store has
\* succeeded, a new store built for the same user loads exactly the first
\* store's in-memory ledger: same records, same order, same field values.
C7_ReloadEqualsMemory ==
  \A u \in Users :
    hist[u].clean => ExpenseTracker(u, files).expenses = store[u].expenses

C7_Witness ==
  /\ last.op = "delete"
  /\ last.ret_bool
  /\ hist[last.user].clean
  /\ store[last.user].expenses # <<>>

\* C9: after add_expense calls only, on a ledger that began empty,
\* get_recent_expenses(n) returns min(n, length) records, the most recently
\* added ones from newest to oldest, and the ledger length is the number of
\* adds that succeeded.
C9_RecentIsNewestFirst ==
  (last.op = "recent" /\ hist[last.user].only_adds) =>
    LET e == store[last.user].expenses
        n == Len(e)
        k == IF last.limit < n THEN last.limit ELSE n
    IN /\ Len(last.ret_list) = k
       /\ \A i \in 1..k : last.ret_list[i] = e[n - i + 1]
       /\ n = hist[last.user].n_ok


\* ------------------------------------------------------------- claims under ChatSpec

\* C8: a write that fails during add_expense or delete_expense reaches the
\* caller as an error: the call returns no record and no True, and the chat
\* sends "Transaction Saved" or "Deleted transaction" only when the whole
\* document was written.
C8_WriteFailurePropagates ==
  last.op \in {"add", "delete"} =>
    LET confirmed == reply[last.user] \in {"Transaction Saved", "Deleted transaction"}
    IN /\ last.fault # "none" =>
            /\ last.exc = "OSError"
            /\ last.ret_expense = <<>>
            /\ last.ret_bool = FALSE
            /\ ~confirmed
       /\ (last.ret_expense # <<>> \/ last.ret_bool \/ confirmed) =>
            /\ last.saved
            /\ last.fault = "none"
            /\ Complete(LastFile)
            /\ load_expenses(LastFile) = last.after

C8_Witness ==
  /\ last.op = "add"
  /\ last.fault = "write"
  /\ last.before # <<>>
  /\ reply[last.user] = Raised
  /\ conv[last.user] = CONFIRM

\* C10: every record of a ledger built through the chat has amount > 0:
\* amount_received stores an amount only when the text parses to a number
\* greater than 0, and otherwise the conversation stays in AMOUNT with no amount
\* stored and the ledger as it was.
C10_ChatAmountsPositive ==
  /\ \A u \in Users :
       "amount" \in DOMAIN user_data[u] => FGtZero(user_data[u]["amount"])
  /\ \A u \in Users :
       (conv[u] = DESCRIPTION \/ conv[u] = CONFIRM) => "amount" \in DOMAIN user_data[u]
  /\ \A f \in Filenames :
       LET e == load_expenses(files[f])
       IN \A i \in 1..Len(e) : FGtZero(e[i].amount)
  /\ last.op = "add" => FGtZero(last.amount)

\* ------------------------------------------------------------- claims under SumSpec

Amounts(expenses) == [i \in 1..Len(expenses) |-> expenses[i].amount]

\* The float nearest to the sum of these finite amounts.
NearestSum(expenses) == Fin(RoundFloat(SumExact(Amounts(expenses))))

\* The sum of the values of a dict of finite floats.
RECURSIVE ValuesSum(_)
ValuesSum(d) ==
  IF DOMAIN d = {} THEN 0
  ELSE LET k == CHOOSE c \in DOMAIN d : TRUE
       IN d[k].v + ValuesSum([c \in DOMAIN d \ {k} |-> d[c]])

\* The window of a period at clock reading t, as the periods are defined: the
\* current day, the last 7 days, the current month, the current year, or all
\* time.
InWindow(expense, period, t) ==
  LET p == FromIso(expense.date)
      n == Datetime(t)
  IN /\ p.ok
     /\ CASE period = "day" -> Linear(p.dt) >= t - n.s
          [] period = "week" -> Linear(p.dt) >= t - 7 * TicksPerDay
          [] period = "month" -> p.dt.y > n.y \/ (p.dt.y = n.y /\ p.dt.mo >= n.mo)
          [] period = "year" -> p.dt.y >= n.y
          [] OTHER -> TRUE

Window(expenses, period, t) == SelectSeq(expenses, LAMBDA e : InWindow(e, period, t))

Permuted(expenses, perm) == [i \in 1..Len(expenses) |-> expenses[perm[i]]]

\* C11: get_summary returns count = the number of records in the window of the
\* period, total = the sum of their amounts and by_category = each category of
\* the window with the sum of its amounts, whose values add up to total; and it
\* returns the same for every permutation of the ledger.
C11_SummaryAggregates ==
  last.op = "summary" =>
    LET s == last.ret_summary
        win == Window(last.before, last.period, last.clock)
        cats == {win[i].category : i \in 1..Len(win)}
        Of(c) == SelectSeq(win, LAMBDA e : e.category = c)
    IN /\ s.count = Len(win)
       /\ s.total = NearestSum(win)
       /\ DOMAIN s.by_category = cats
       /\ \A c \in cats : s.by_category[c] = NearestSum(Of(c))
       /\ Fin(RoundFloat(ValuesSum(s.by_category))) = s.total
       /\ \A perm \in Permutations(1..Len(last.before)) :
            get_summary([store[last.user] EXCEPT !.expenses = Permuted(last.before, perm)],
                        last.period, last.clock, last.build).ret = s

\* ------------------------------------------------------------- claims under WindowSpec

\* C12: get_summary(period) selects exactly the records whose timestamp is not
\* before the start of the window: the start of the current day, now minus 7
\* days, the first instant of the current month or year, and no lower bound for
\* 'all' or an unrecognised period.
C12_WindowSelectsFromStart ==
  last.op = "summary" =>
    LET s == last.ret_summary
        win == Window(last.before, last.period, last.clock)
    IN /\ s.count = Len(win)
       /\ s.by_category = ByCategory(win)
       /\ s.total = Sum(Amounts(win), last.build)

Unparseable(expense) == ~FromIso(expense.date).ok

Parseable(expenses) == SelectSeq(expenses, LAMBDA e : ~Unparseable(e))

\* C13: a record whose stored timestamp cannot be parsed is left out by
\* get_summary and by get_recent_expenses, which return what they return for
\* the ledger without it, and delete_expense by its id finds and removes it.
C13_UnparseableIsSkipped ==
  LET u == last.user
      rest == [store[u] EXCEPT !.expenses = Parseable(last.before)]
      i == FirstWithId(last.before, last.expense_id)
  IN /\ last.op = "summary" =>
          last.ret_summary = get_summary(rest, last.period, last.clock, last.build).ret
     /\ last.op = "recent" =>
          last.ret_list = get_recent_expenses(rest, last.limit).ret
     /\ (last.op = "delete" /\ i # 0 /\ Unparseable(last.before[i])) =>
          /\ last.ret_bool
          /\ last.after = Without(last.before, i)

\* C14: building a store, get_summary and get_recent_expenses change nothing:
\* the stored documents are the ones from before the call, and after the two
\* reads the in-memory ledger has the same records in the same order.
C14_ReadsChangeNothing ==
  last.op \in {"init", "summary", "recent"} =>
    /\ LastFile = last.file_before
    /\ \A f \in Filenames : f # Filename(last.user) => files[f] = NoFile
    /\ last.op = "init" => store[last.user].expenses = load_expenses(last.file_before)
    /\ last.op # "init" =>
         /\ last.after = last.before
         /\ store[last.user].expenses = last.before

C14_Witness ==
  /\ last.op = "recent"
  /\ Len(last.ret_list) = 2
  /\ last.ret_list # SubSeq(last.before, 1, 2)
  /\ store[last.user].expenses = last.before

\* ------------------------------------------------------------- claims under MultiSpec

\* What a handler shows a user: the list and the summary of a store built from
\* the user's document.
Shown(u, fs, t) ==
  LET tracker == ExpenseTracker(u, fs)
  IN [recent |-> get_recent_expenses(tracker, 10).ret,
      summary |-> get_summary(tracker, "all", t, "naive").ret]

\* C15: two user ids have two stored documents, and a call made for one user
\* changes neither the document, nor the store, nor the list and summary of
\* any other user, however the calls of the users interleave.
C15_UsersAreIndependent ==
  [][\A a \in Users : \A b \in Users \ {a} :
       /\ Filename(a) # Filename(b)
       /\ last'.user = a =>
            /\ files'[Filename(b)] = files[Filename(b)]
            /\ store'[b] = store[b]
            /\ Shown(b, files', now') = Shown(b, files, now)]_vars

C15_Witness ==
  /\ last.user = 1
  /\ last.op = "delete"
  /\ last.ret_bool
  /\ load_expenses(files[Filename(1)]) = <<>>
  /\ Len(load_expenses(files[Filename(2)])) = 2
  /\ Len(store[2].expenses) = 2

\* ------------------------------------------------------------- claims under OrderSpec

\* The list is a subsequence of the log, its records at these places.
SubseqAt(list, at, log) ==
  /\ Len(at) = Len(list)
  /\ \A i \in 1..Len(at) : at[i] \in 1..Len(log) /\ log[at[i]] = list[i]
  /\ \A i \in 1..Len(at) : \A j \in 1..Len(at) : i < j => at[i] < at[j]

\* C16: after any sequence of add_expense and delete_expense calls the stored
\* sequence of records is a subsequence of the records in the order in which
\* they were added: no two stored records ever swap.
C16_StoredOrderIsAddOrder ==
  \A u \in Users :
    LET o == order[u]
    IN /\ SubseqAt(load_expenses(files[Filename(u)]), o.file_at, o.log)
       /\ SubseqAt(store[u].expenses, o.mem_at, o.log)

C16_Witness ==
  /\ last.op = "add"
  /\ last.exc = ""
  /\ Len(last.before) = 1
  /\ last.before[1].id = 2
  /\ Len(load_expenses(LastFile)) = 2

\* C18: a record add_expense has returned is in the ledger that a store built
\* later loads from the document, as long as no delete_expense given the id of
\* the record has returned True: no add, delete, failed write or reload takes
\* it out.
C18_ReturnedRecordsStay ==
  \A u \in Users :
    LET stored == load_expenses(files[Filename(u)])
    IN \A x \in order[u].returned : \E i \in 1..Len(stored) : stored[i] = x

\* ------------------------------------------------------------- claims under ConvSpec
ConvSteps ==
  {<<END, CATEGORY>>, <<CATEGORY, AMOUNT>>, <<AMOUNT, DESCRIPTION>>,
   <<DESCRIPTION, CONFIRM>>}

\* C17: the /add conversation is a linear state machine. Its state moves only
\* one step on, from CATEGORY to AMOUNT to DESCRIPTION to CONFIRM, or to the
\* end; the stored ledger gains a record only in the step of a 'confirm_yes'
\* callback taken in CONFIRM; the cancel button in CATEGORY, /cancel, and any
\* other callback in CONFIRM, when their handler returns, end the conversation
\* and leave every document as it was; and one conversation writes at most one
\* record.
C17_ConversationIsLinear ==
  [][\A u \in Users :
       LET t == dialog'
           gained == Len(load_expenses(files'[Filename(u)]))
                       > Len(load_expenses(files[Filename(u)]))
           other == \/ t.handler = "cancel"
                    \/ t.handler = "category_chosen" /\ t.data = <<"cancel">>
                    \/ t.handler = "confirm_expense" /\ t.data # <<"confirm_yes">>
       IN /\ conv'[u] # conv[u] =>
               conv'[u] = END \/ <<conv[u], conv'[u]>> \in ConvSteps
          /\ gained => /\ t.user = u
                       /\ t.handler = "confirm_expense"
                       /\ t.data = <<"confirm_yes">>
                       /\ conv[u] = CONFIRM
          /\ (t.user = u /\ other /\ reply'[u] # Raised) =>
               conv'[u] = END /\ files' = files
          /\ t.written[u] <= 1]_vars

\* C20: in DESCRIPTION user_data holds 'category' and 'amount', in CONFIRM it
\* holds 'category', 'amount' and 'description', and when no conversation is
\* going on user_data is empty; no handler finds a field missing (KeyError).
C20_PendingDataMatchesState ==
  \A u \in Users :
    LET keys == DOMAIN user_data[u]
    IN /\ conv[u] = DESCRIPTION => {"category", "amount"} \subseteq keys
       /\ conv[u] = CONFIRM => {"category", "amount", "description"} \subseteq keys
       /\ conv[u] = END => user_data[u] = EmptyDict
       /\ last.exc # "KeyError"

\* ------------------------------------------------------------- claims under AsyncSpec

\* C19: no update is lost. However the coroutines of confirm_expense and of
\* the /delete handler for one user are interleaved, the stored ledger is what
\* their load-modify-write sections give when run one after another, and every
\* record a confirm has added is in it until a delete with its id succeeds.
C19_NoLostUpdate ==
  \A u \in Users :
    LET stored == load_expenses(files[Filename(u)])
    IN /\ stored = tasks.serial[u]
       /\ \A x \in tasks.confirmed[u] : \E i \in 1..Len(stored) : stored[i] = x

\* Two confirm coroutines that both began before any record was written have
\* both run their sections.
C19_Witness ==
  \E i, j \in 1..Len(tasks.run) :
    /\ i # j
    /\ tasks.run[i].handler = "confirm_expense" /\ tasks.run[i].pc = "reply"
    /\ tasks.run[j].handler = "confirm_expense" /\ tasks.run[j].pc = "reply"
    /\ tasks.run[i].seen = NoFile /\ tasks.run[j].seen = NoFile
    /\ Len(load_expenses(files[Filename(tasks.run[i].user)])) = 2

\* ------------------------------------------------------------- claims under ButtonSpec

\* C21: every record saved through the /add conversation has a category that
\* is a label of the preset list, whatever callback queries arrived while the
\* conversation was in CATEGORY (presses of the buttons of earlier messages,
\* 'confirm_yes' and 'confirm_no', among them).
C21_SavedCategoryIsPreset ==
  \A u \in Users :
    LET stored == load_expenses(files[Filename(u)])
    IN \A i \in 1..Len(stored) : stored[i].category \in CATEGORIES

====
